---- MODULE Spec2Model ----
(***************************************************************************)
(* Insteon device property editor: the translation between the packed      *)
(* mask properties of a KeypadLinc device and the radio-button-group and   *)
(* toggle-mode rows shown to the front end                                 *)
(* (homeassistant/components/insteon/api/properties.py).                   *)
(*                                                                         *)
(* The device object comes from the pyinsteon library.  Its property       *)
(* objects (value, new_value, is_dirty) and its two convenience methods    *)
(* set_radio_buttons and set_toggle_mode are modelled from the behaviour   *)
(* the repository's tests pin down and from the specification.             *)
(*                                                                         *)
(* A property name is the pair (prefix, suffix) of the Python string       *)
(* prefix + suffix, prefix being "", "radio_button_group_" or "toggle_".   *)
(* A request value is the record [kind, num, list, str]; kind is the       *)
(* Python type of the value ("bool", "num", "list", "str"), a bool is      *)
(* carried in num as 0 / 1 and a list as the set of its (distinct)         *)
(* members.  Seconds of a ramp rate are counted in tenths of a second.     *)
(***************************************************************************)
EXTENDS Integers, Sequences, FiniteSets, TLC

VARIABLES operating_flags, properties, msg, result, requests,
          layout, response, replies, pc, calls

vars == <<operating_flags, properties, msg, result, requests,
          layout, response, replies, pc, calls>>

(***************************************************************************)
(* Bounds of the model.                                                    *)
(***************************************************************************)
\* Number of buttons (device.groups keys 1..NumButtons) of the device.
NumButtons == 4

\* Number of requests handled between two resets of the device.
MaxRequests == 2

(***************************************************************************)
(* Constants of the program.                                               *)
(***************************************************************************)
\* Python None as the value of new_value.
None == -1

\* Number of mask bits scanned by _calc_radio_button_groups: range(.., 8).
MaskBits == 8

RADIO_BUTTON_GROUP_PROP == "radio_button_group_"
TOGGLE_PROP == "toggle_"
TOGGLE_ON_OFF_MODE == "toggle_on_off_mode"
NON_TOGGLE_ON_MODE == "non_toggle_on_mode"
NON_TOGGLE_OFF_MODE == "non_toggle_off_mode"
ON_MASK == "on_mask"
OFF_MASK == "off_mask"
NON_TOGGLE_MASK == "non_toggle_mask"
NON_TOGGLE_ON_OFF_MASK == "non_toggle_on_off_mask"
RAMP_RATE == "ramp_rate"
LED_ON == "led_on"
PROGRAM_LOCK_ON == "program_lock_on"
ON_LEVEL == "on_level"
LED_DIMMING == "led_dimming"
DEVICE_ADDRESS == "33.33.33"
BAD_ADDRESS == "99.99.99"

\* TOGGLE_MODES: mode name -> mode code.
TOGGLE_MODES == [m \in {TOGGLE_ON_OFF_MODE, NON_TOGGLE_ON_MODE, NON_TOGGLE_OFF_MODE} |->
                   CASE m = TOGGLE_ON_OFF_MODE -> 0
                     [] m = NON_TOGGLE_ON_MODE -> 1
                     [] m = NON_TOGGLE_OFF_MODE -> 2]

(***************************************************************************)
(* The device: buttons, their names, the names of their mask properties.   *)
(***************************************************************************)
\* device.groups: the button ids, iterated in ascending order.
Buttons == 1..NumButtons

\* device.groups[button].name of the KeypadLinc.
GroupName(button) ==
    <<"dimmable_light_main", "on_off_switch_b", "on_off_switch_c", "on_off_switch_d",
      "on_off_switch_e", "on_off_switch_f", "on_off_switch_g", "on_off_switch_h",
      "on_off_switch_i">>[button]

ButtonNames == {GroupName(b) : b \in Buttons}

\* buttons = {device.groups[button].name: button for button in device.groups}
ButtonOfName(name) == CHOOSE b \in Buttons : GroupName(b) = name

\* f"{ON_MASK}{button_str}" with button_str = "" for button 1, f"_{button}" otherwise.
OnMaskName(button) ==
    <<"on_mask", "on_mask_2", "on_mask_3", "on_mask_4", "on_mask_5",
      "on_mask_6", "on_mask_7", "on_mask_8", "on_mask_9">>[button]

OffMaskName(button) ==
    <<"off_mask", "off_mask_2", "off_mask_3", "off_mask_4", "off_mask_5",
      "off_mask_6", "off_mask_7", "off_mask_8", "off_mask_9">>[button]

\* Keys of device.properties (the extended properties of the device).
PropertyNames ==
    {OnMaskName(b) : b \in Buttons} \cup {OffMaskName(b) : b \in Buttons}
      \cup {NON_TOGGLE_MASK, NON_TOGGLE_ON_OFF_MASK, RAMP_RATE, ON_LEVEL, LED_DIMMING}

\* Keys of device.operating_flags.
FlagNames == {LED_ON, PROGRAM_LOCK_ON}

\* "mask" in prop_name, for the names of the device.
HasMask(prop_name) ==
    prop_name \in {OnMaskName(b) : b \in 1..9} \cup {OffMaskName(b) : b \in 1..9}
                    \cup {NON_TOGGLE_MASK, NON_TOGGLE_ON_OFF_MASK}

(***************************************************************************)
(* Bit arithmetic on masks.                                                *)
(***************************************************************************)
\* mask & 1 << bit, as a truth value.
BitIsSet(mask, bit) == (mask \div (2 ^ bit)) % 2 = 1

\* mask with the given bit set (on = TRUE) or cleared.
SetBit(mask, bit, on) ==
    IF on THEN (IF BitIsSet(mask, bit) THEN mask ELSE mask + 2 ^ bit)
          ELSE (IF BitIsSet(mask, bit) THEN mask - 2 ^ bit ELSE mask)

RECURSIVE MaskOf(_)
\* The mask with exactly the bits (button - 1) of the given buttons set.
MaskOf(S) ==
    IF S = {} THEN 0
    ELSE LET b == CHOOSE x \in S : TRUE IN 2 ^ (b - 1) + MaskOf(S \ {b})

(***************************************************************************)
(* Property objects of the device library.                                 *)
(***************************************************************************)
\* prop.is_dirty: a pending value is present and differs from the committed one.
IsDirty(prop) == prop.new_value # None /\ prop.new_value # prop.value

\* prop.new_value = v: a value equal to the committed value leaves no pending value.
SetNewValue(prop, v) ==
    [prop EXCEPT !.new_value = IF v = prop.value THEN None ELSE v]

\* _get_usable_value that takes a property for modified whenever its pending
\* value is not its committed value, an absent pending value included.
GetUsableValueNoNoneTest(prop) ==
    [value |-> IF prop.new_value = None THEN prop.value ELSE prop.new_value,
     dirty |-> prop.new_value # prop.value]

\* _get_usable_value(prop): value = prop.value if prop.new_value is None
\* else prop.new_value; returns (value, prop.is_dirty).
GetUsableValue(prop) ==
    [value |-> IF prop.new_value = None THEN prop.value ELSE prop.new_value,
     dirty |-> IsDirty(prop)]

(***************************************************************************)
(* Decoding the radio-button groups from the on-masks.                     *)
(***************************************************************************)
RECURSIVE SortedSeq(_)
\* The members of a set of numbers as an ascending sequence.
SortedSeq(S) ==
    IF S = {} THEN <<>>
    ELSE LET m == CHOOSE x \in S : \A y \in S : x <= y IN <<m>> \o SortedSeq(S \ {m})

\* The members of a sequence, as a set.
Range(seq) == {seq[i] : i \in 1..Len(seq)}

\* [b for b in chain.from_iterable(rb_groups)], as a set.
ButtonsInGroups(rb_groups) == UNION {Range(rb_groups[i]) : i \in 1..Len(rb_groups)}

\* One button's group without the exclusion of the button's own bit: the bits
\* are scanned over list(range(0, 8)).
RadioGroupOfAllBits(button, on_mask) ==
    <<button>> \o SortedSeq({bit + 1 : bit \in {x \in 0..(MaskBits - 1) : BitIsSet(on_mask, x)}})

\* One button's group: [button] followed by bit + 1 for every set bit of on_mask
\* among list(range(0, button - 1)) + list(range(button, 8)).
RadioGroupOf(button, on_mask) ==
    <<button>> \o SortedSeq({bit + 1 : bit \in {x \in ((0..(button - 2)) \cup (button..(MaskBits - 1))) :
                                                   BitIsSet(on_mask, x)}})

RECURSIVE CalcRadioButtonGroupsFrom(_, _, _)
\* The loop of _calc_radio_button_groups from the given button on.
CalcRadioButtonGroupsFrom(props, button, rb_groups) ==
    IF button > NumButtons THEN rb_groups
    ELSE LET on_mask  == GetUsableValue(props[OnMaskName(button)]).value
             rb_group == RadioGroupOf(button, on_mask)
             next     == IF /\ button \notin ButtonsInGroups(rb_groups)
                            /\ on_mask # 0
                            /\ Len(rb_group) > 1
                         THEN Append(rb_groups, rb_group)
                         ELSE rb_groups
         IN CalcRadioButtonGroupsFrom(props, button + 1, next)

\* _calc_radio_button_groups(device): the existing radio button groups.
CalcRadioButtonGroups(props) == CalcRadioButtonGroupsFrom(props, 1, <<>>)

(***************************************************************************)
(* Decoding the toggle mode of a button.                                   *)
(***************************************************************************)
\* _toggle_button_value that tests the on/off mask for a clear bit.
ToggleButtonValueInverted(non_toggle_prop, toggle_on_prop, button) ==
    LET toggle_mask    == GetUsableValue(non_toggle_prop).value
        toggle_on_mask == GetUsableValue(toggle_on_prop).value
        bit   == button - 1
        value == IF ~BitIsSet(toggle_mask, bit) THEN 0
                 ELSE IF ~BitIsSet(toggle_on_mask, bit) THEN 1 ELSE 2
    IN [value |-> value, modified |-> FALSE]

\* _toggle_button_value that takes a button for modified whenever one of the
\* two mask properties is dirty, whatever the bit of the button.
ToggleButtonValuePerProperty(non_toggle_prop, toggle_on_prop, button) ==
    LET toggle_mask        == GetUsableValue(non_toggle_prop).value
        toggle_modified    == GetUsableValue(non_toggle_prop).dirty
        toggle_on_mask     == GetUsableValue(toggle_on_prop).value
        toggle_on_modified == GetUsableValue(toggle_on_prop).dirty
        bit   == button - 1
        value == IF ~BitIsSet(toggle_mask, bit) THEN 0
                 ELSE IF BitIsSet(toggle_on_mask, bit) THEN 1 ELSE 2
    IN [value |-> value,
        modified |-> toggle_modified \/ (value # 0 /\ toggle_on_modified)]

\* _toggle_button_value whose second test leaves out value != 0: the bit of the
\* on/off mask counts for a button in toggle mode too.
ToggleButtonValueNoModeTest(non_toggle_prop, toggle_on_prop, button) ==
    LET toggle_mask        == GetUsableValue(non_toggle_prop).value
        toggle_modified    == GetUsableValue(non_toggle_prop).dirty
        toggle_on_mask     == GetUsableValue(toggle_on_prop).value
        toggle_on_modified == GetUsableValue(toggle_on_prop).dirty
        bit   == button - 1
        value == IF ~BitIsSet(toggle_mask, bit) THEN 0
                 ELSE IF BitIsSet(toggle_on_mask, bit) THEN 1 ELSE 2
        modified1 == IF toggle_modified
                     THEN BitIsSet(non_toggle_prop.value, bit)
                            # BitIsSet(non_toggle_prop.new_value, bit)
                     ELSE FALSE
        modified  == IF ~modified1 /\ toggle_on_modified
                     THEN BitIsSet(toggle_on_prop.value, bit)
                            # BitIsSet(toggle_on_prop.new_value, bit)
                     ELSE modified1
    IN [value |-> value, modified |-> modified]

\* _toggle_button_value(non_toggle_prop, toggle_on_prop, button): (value, modified).
ToggleButtonValue(non_toggle_prop, toggle_on_prop, button) ==
    LET toggle_mask        == GetUsableValue(non_toggle_prop).value
        toggle_modified    == GetUsableValue(non_toggle_prop).dirty
        toggle_on_mask     == GetUsableValue(toggle_on_prop).value
        toggle_on_modified == GetUsableValue(toggle_on_prop).dirty
        bit   == button - 1
        value == IF ~BitIsSet(toggle_mask, bit) THEN 0
                 ELSE IF BitIsSet(toggle_on_mask, bit) THEN 1 ELSE 2
        modified1 == IF toggle_modified
                     THEN BitIsSet(non_toggle_prop.value, bit)
                            # BitIsSet(non_toggle_prop.new_value, bit)
                     ELSE FALSE
        modified  == IF ~modified1 /\ value # 0 /\ toggle_on_modified
                     THEN BitIsSet(toggle_on_prop.value, bit)
                            # BitIsSet(toggle_on_prop.new_value, bit)
                     ELSE modified1
    IN [value |-> value, modified |-> modified]

\* _get_toggle_properties(device): one row per button, in button order.
GetToggleProperties(props) ==
    [button \in Buttons |->
        LET r == ToggleButtonValue(props[NON_TOGGLE_MASK], props[NON_TOGGLE_ON_OFF_MASK], button)
        IN [name |-> [prefix |-> TOGGLE_PROP, suffix |-> GroupName(button)],
            value |-> r.value, modified |-> r.modified]]

(***************************************************************************)
(* The two convenience methods of the device object.                       *)
(***************************************************************************)
\* device.set_radio_buttons(group): every listed button's on-mask and off-mask
\* get the bits of the other listed buttons.
SetRadioButtons(props, group) ==
    [p \in PropertyNames |->
        IF \E b \in group : p \in {OnMaskName(b), OffMaskName(b)}
        THEN LET b == CHOOSE x \in group : p \in {OnMaskName(x), OffMaskName(x)}
             IN SetNewValue(props[p], MaskOf(group \ {b}))
        ELSE props[p]]

\* device.set_toggle_mode(button, mode): the bit of the button is set or cleared
\* in the committed value of the two masks and the outcome is staged.
SetToggleMode(props, button, mode) ==
    LET bit == button - 1 IN
    [props EXCEPT
        ![NON_TOGGLE_MASK] = SetNewValue(@, SetBit(@.value, bit, mode # 0)),
        ![NON_TOGGLE_ON_OFF_MASK] = SetNewValue(@, SetBit(@.value, bit, mode = 1))]

(***************************************************************************)
(* Conversions of the ramp rate (pyinsteon.utils).                         *)
(***************************************************************************)
\* RAMP_RATES: rate code (index - 1) -> tenths of a second.
RampRates ==
    <<20, 4800, 4200, 3600, 3000, 2700, 2400, 2100, 1800, 1500, 1200, 900, 600, 470, 430,
      385, 340, 320, 300, 280, 260, 235, 215, 190, 85, 65, 45, 20, 5, 3, 2, 1>>

\* seconds_to_ramp_rate(seconds): the highest rate code (from 1 on) whose time
\* is not shorter than the given time.
SecondsToRampRate(tenths) ==
    LET fits == {c \in 1..(Len(RampRates) - 1) : RampRates[c + 1] >= tenths}
    IN IF fits = {} THEN 1 ELSE CHOOSE c \in fits : \A d \in fits : d <= c

\* ramp_rate_to_seconds(ramp_rate): the time of a rate code.
RampRateToSeconds(code) == RampRates[code + 1]

\* RAMP_RATE_SECONDS: the distinct times of RAMP_RATES, ascending.
RAMP_RATE_SECONDS == SortedSeq(Range(RampRates))

(***************************************************************************)
(* get_properties: the rows and the schema sent to the front end.          *)
(* A row is [name, value, modified]; its value is [num, list], a number    *)
(* (a bool as 0 / 1, a ramp rate in tenths of a second) or a list of       *)
(* button names.  A schema entry is [name, type, options, values]:         *)
(* options lists button names, values the seconds of the ramp rates.       *)
(* The layout of a device is [flags, props, read_only]: the keys of        *)
(* device.operating_flags and of device.properties in collection order     *)
(* and the names whose is_read_only is true.                               *)
(***************************************************************************)
RowValue(n) == [num |-> n, list |-> <<>>]
RowList(l) == [num |-> 0, list |-> l]

\* str(index) of an f-string, for one digit.
Digits == <<"0", "1", "2", "3", "4", "5", "6", "7", "8", "9">>

\* [device.groups[button].name for button in buttons]
NamesOf(buttons) == [i \in 1..Len(buttons) |-> GroupName(buttons[i])]

\* _get_property(prop): the row and the schema entry of a flag or property.
GetProperty(name, prop, is_bool) ==
    LET u == GetUsableValue(prop) IN
    [row    |-> [name |-> [prefix |-> "", suffix |-> name],
                 value |-> RowValue(u.value), modified |-> u.dirty],
     schema |-> [name |-> [prefix |-> "", suffix |-> name],
                 type |-> IF is_bool THEN "boolean" ELSE "integer",
                 options |-> <<>>, values |-> <<>>]]

\* _get_ramp_rate_property without the conversion: the row holds the rate code.
GetRampRatePropertyRaw(prop) ==
    LET rr == GetProperty(RAMP_RATE, prop, FALSE) IN
    [row    |-> rr.row,
     schema |-> [name |-> [prefix |-> "", suffix |-> RAMP_RATE],
                 type |-> "select", options |-> <<>>, values |-> RAMP_RATE_SECONDS]]

\* _get_ramp_rate_property(prop): the row holds the seconds of the rate code.
GetRampRateProperty(prop) ==
    LET rr == GetProperty(RAMP_RATE, prop, FALSE) IN
    [row    |-> [rr.row EXCEPT !.value = RowValue(RampRateToSeconds(rr.row.value.num))],
     schema |-> [name |-> [prefix |-> "", suffix |-> RAMP_RATE],
                 type |-> "select", options |-> <<>>, values |-> RAMP_RATE_SECONDS]]

\* The rows and schema of _get_toggle_properties(device), as sequences.
GetToggleRows(props) ==
    LET t == GetToggleProperties(props) IN
    [properties |-> [b \in 1..NumButtons |->
                        [name |-> t[b].name, value |-> RowValue(t[b].value),
                         modified |-> t[b].modified]],
     schema     |-> [b \in 1..NumButtons |->
                        [name |-> t[b].name, type |-> "select",
                         options |-> <<>>, values |-> <<0, 1, 2>>]]]

\* _get_radio_button_properties that adds the row with no value as soon as one
\* button is in no group.
GetRadioButtonPropertiesOver0(props) ==
    LET rb_groups         == CalcRadioButtonGroups(props)
        remaining_buttons == SortedSeq(Buttons \ ButtonsInGroups(rb_groups))
        name(index)       == [prefix |-> RADIO_BUTTON_GROUP_PROP, suffix |-> Digits[index + 1]]
        group_rows ==
            [i \in 1..Len(rb_groups) |->
                LET button_1 == rb_groups[i][1] IN
                [name |-> name(i - 1),
                 value |-> RowList(NamesOf(rb_groups[i])),
                 modified |-> \/ IsDirty(props[OnMaskName(button_1)])
                              \/ IsDirty(props[OffMaskName(button_1)])]]
        group_schema ==
            [i \in 1..Len(rb_groups) |->
                [name |-> name(i - 1), type |-> "multi_select",
                 options |-> NamesOf(SortedSeq(Range(rb_groups[i]) \cup Range(remaining_buttons))),
                 values |-> <<>>]]
    IN IF Len(remaining_buttons) > 0
       THEN [properties |-> Append(group_rows,
                               [name |-> name(Len(rb_groups)), value |-> RowList(<<>>),
                                modified |-> FALSE]),
             schema     |-> Append(group_schema,
                               [name |-> name(Len(rb_groups)), type |-> "multi_select",
                                options |-> NamesOf(remaining_buttons), values |-> <<>>])]
       ELSE [properties |-> group_rows, schema |-> group_schema]

\* _get_radio_button_properties(device): one row per decoded group and one
\* more, with no value, when more than one button is in no group.
GetRadioButtonProperties(props) ==
    LET rb_groups         == CalcRadioButtonGroups(props)
        remaining_buttons == SortedSeq(Buttons \ ButtonsInGroups(rb_groups))
        name(index)       == [prefix |-> RADIO_BUTTON_GROUP_PROP, suffix |-> Digits[index + 1]]
        group_rows ==
            [i \in 1..Len(rb_groups) |->
                LET button_1 == rb_groups[i][1] IN
                [name |-> name(i - 1),
                 value |-> RowList(NamesOf(rb_groups[i])),
                 modified |-> \/ IsDirty(props[OnMaskName(button_1)])
                              \/ IsDirty(props[OffMaskName(button_1)])]]
        group_schema ==
            [i \in 1..Len(rb_groups) |->
                [name |-> name(i - 1), type |-> "multi_select",
                 options |-> NamesOf(SortedSeq(Range(rb_groups[i]) \cup Range(remaining_buttons))),
                 values |-> <<>>]]
    IN IF Len(remaining_buttons) > 1
       THEN [properties |-> Append(group_rows,
                               [name |-> name(Len(rb_groups)), value |-> RowList(<<>>),
                                modified |-> FALSE]),
             schema     |-> Append(group_schema,
                               [name |-> name(Len(rb_groups)), type |-> "multi_select",
                                options |-> NamesOf(remaining_buttons), values |-> <<>>])]
       ELSE [properties |-> group_rows, schema |-> group_schema]

RECURSIVE GetFlagRowsNoReadOnlyTest(_, _, _, _)
\* The loop over device.operating_flags without the test of is_read_only.
GetFlagRowsNoReadOnlyTest(lay, flags, i, acc) ==
    IF i > Len(lay.flags) THEN acc
    ELSE LET prop_name == lay.flags[i]
             r == GetProperty(prop_name, flags[prop_name], TRUE)
         IN GetFlagRowsNoReadOnlyTest(lay, flags, i + 1,
                             [properties |-> Append(acc.properties, r.row),
                              schema |-> Append(acc.schema, r.schema)])

RECURSIVE GetFlagRowsNoSchema(_, _, _, _)
\* The loop over device.operating_flags without the assignment to the schema.
GetFlagRowsNoSchema(lay, flags, i, acc) ==
    IF i > Len(lay.flags) THEN acc
    ELSE LET prop_name == lay.flags[i]
             r == GetProperty(prop_name, flags[prop_name], TRUE)
         IN IF prop_name \in lay.read_only
            THEN GetFlagRowsNoSchema(lay, flags, i + 1, acc)
            ELSE GetFlagRowsNoSchema(lay, flags, i + 1,
                                     [properties |-> Append(acc.properties, r.row),
                                      schema |-> acc.schema])

RECURSIVE GetFlagRows(_, _, _, _)
\* The loop of get_properties over device.operating_flags, from index i on.
GetFlagRows(lay, flags, i, acc) ==
    IF i > Len(lay.flags) THEN acc
    ELSE LET prop_name == lay.flags[i]
             r == GetProperty(prop_name, flags[prop_name], TRUE)
         IN IF prop_name \in lay.read_only
            THEN GetFlagRows(lay, flags, i + 1, acc)
            ELSE GetFlagRows(lay, flags, i + 1,
                             [properties |-> Append(acc.properties, r.row),
                              schema |-> Append(acc.schema, r.schema)])

RECURSIVE GetPropertyRowsNoMaskFound(_, _, _, _, _)
\* The loop over device.properties without the test of mask_found: every
\* mask-named property is expanded.
GetPropertyRowsNoMaskFound(lay, props, i, mask_found, acc) ==
    IF i > Len(lay.props) THEN acc
    ELSE LET prop_name == lay.props[i] IN
         IF prop_name \in lay.read_only
         THEN GetPropertyRowsNoMaskFound(lay, props, i + 1, mask_found, acc)
         ELSE IF prop_name = RAMP_RATE
         THEN LET r == GetRampRateProperty(props[prop_name]) IN
              GetPropertyRowsNoMaskFound(lay, props, i + 1, mask_found,
                              [properties |-> Append(acc.properties, r.row),
                               schema |-> Append(acc.schema, r.schema)])
         ELSE IF HasMask(prop_name)
         THEN LET t  == GetToggleRows(props)
                  rb == GetRadioButtonProperties(props)
              IN GetPropertyRowsNoMaskFound(lay, props, i + 1, TRUE,
                                 [properties |-> acc.properties \o t.properties \o rb.properties,
                                  schema |-> acc.schema \o t.schema \o rb.schema])
         ELSE LET r == GetProperty(prop_name, props[prop_name], FALSE) IN
              GetPropertyRowsNoMaskFound(lay, props, i + 1, mask_found,
                              [properties |-> Append(acc.properties, r.row),
                               schema |-> Append(acc.schema, r.schema)])

RECURSIVE GetPropertyRows(_, _, _, _, _)
\* The loop of get_properties over device.properties, from index i on.
GetPropertyRows(lay, props, i, mask_found, acc) ==
    IF i > Len(lay.props) THEN acc
    ELSE LET prop_name == lay.props[i] IN
         IF prop_name \in lay.read_only
         THEN GetPropertyRows(lay, props, i + 1, mask_found, acc)
         ELSE IF prop_name = RAMP_RATE
         THEN LET r == GetRampRateProperty(props[prop_name]) IN
              GetPropertyRows(lay, props, i + 1, mask_found,
                              [properties |-> Append(acc.properties, r.row),
                               schema |-> Append(acc.schema, r.schema)])
         ELSE IF ~mask_found /\ HasMask(prop_name)
         THEN LET t  == GetToggleRows(props)
                  rb == GetRadioButtonProperties(props)
              IN GetPropertyRows(lay, props, i + 1, TRUE,
                                 [properties |-> acc.properties \o t.properties \o rb.properties,
                                  schema |-> acc.schema \o t.schema \o rb.schema])
         ELSE LET r == GetProperty(prop_name, props[prop_name], FALSE) IN
              GetPropertyRows(lay, props, i + 1, mask_found,
                              [properties |-> Append(acc.properties, r.row),
                               schema |-> Append(acc.schema, r.schema)])

\* get_properties(device): the rows and the schema of the device.
GetProperties(lay, flags, props) ==
    GetPropertyRows(lay, props, 1, FALSE,
                    GetFlagRows(lay, flags, 1, [properties |-> <<>>, schema |-> <<>>]))

\* device.groups[button] of _get_radio_button_properties raises KeyError: the
\* masks are expanded (a mask-named property is not read-only) and a decoded
\* group holds a button id that is no key of device.groups.
GetPropertiesRaises(lay, props) ==
    /\ \E i \in 1..Len(lay.props) : HasMask(lay.props[i]) /\ lay.props[i] \notin lay.read_only
    /\ ~(ButtonsInGroups(CalcRadioButtonGroups(props)) \subseteq Buttons)

(***************************************************************************)
(* set_property.                                                           *)
(***************************************************************************)
\* int(prop_name[-1]) succeeds: the last character of the name is a digit.
LastCharIsDigit(name) == name.suffix \in {"0", "1", "2", "3"}

\* int(prop_name[-1]) for a name that ends in a digit.
LastCharDigit(name) ==
    CASE name.suffix = "0" -> 0
      [] name.suffix = "1" -> 1
      [] name.suffix = "2" -> 2
      [] name.suffix = "3" -> 3

RECURSIVE ResetButtons(_, _)
\* The loop that resets the definitions of the buttons of the current group:
\* new_value = 0 on the on-mask and the off-mask of each; device.properties[..]
\* raises KeyError at the first button the device has no mask property for.
ResetButtons(props, curr_buttons) ==
    IF curr_buttons = <<>> THEN [props |-> props, raised |-> FALSE]
    ELSE LET button == Head(curr_buttons) IN
         IF OnMaskName(button) \notin PropertyNames
         THEN [props |-> props, raised |-> TRUE]
         ELSE ResetButtons([props EXCEPT ![OnMaskName(button)] = SetNewValue(@, 0),
                                         ![OffMaskName(button)] = SetNewValue(@, 0)],
                           Tail(curr_buttons))

\* SetRadioButtonGroup without the loop that resets the buttons of the
\* current group.
SetRadioButtonGroupNoReset(props, prop_name, value) ==
    IF ~LastCharIsDigit(prop_name)
    THEN [props |-> props, raised |-> TRUE]
    ELSE IF value.kind # "list" \/ ~(value.list \subseteq ButtonNames)
    THEN [props |-> props, raised |-> TRUE]
    ELSE LET group == {ButtonOfName(n) : n \in value.list} IN
         IF Cardinality(group) > 1
         THEN [props |-> SetRadioButtons(props, group), raised |-> FALSE]
         ELSE [props |-> props, raised |-> FALSE]

\* SetRadioButtonGroup with the size test len(group) > minimum.
SetRadioButtonGroupMin(props, prop_name, value, minimum) ==
    IF ~LastCharIsDigit(prop_name)
    THEN [props |-> props, raised |-> TRUE]
    ELSE
    LET existing_groups == CalcRadioButtonGroups(props)
        curr_group      == LastCharDigit(prop_name)
        curr_buttons    == IF Len(existing_groups) > curr_group
                           THEN existing_groups[curr_group + 1] ELSE <<>>
        reset           == ResetButtons(props, curr_buttons)
    IN  IF reset.raised THEN reset
        ELSE IF value.kind # "list" \/ ~(value.list \subseteq ButtonNames)
        THEN [props |-> reset.props, raised |-> TRUE]
        ELSE LET group == {ButtonOfName(n) : n \in value.list} IN
             IF Cardinality(group) > minimum
             THEN [props |-> SetRadioButtons(reset.props, group), raised |-> FALSE]
             ELSE [props |-> reset.props, raised |-> FALSE]

\* SetRadioButtonGroup with the size test len(group) > 2.
SetRadioButtonGroupOver2(props, prop_name, value) ==
    SetRadioButtonGroupMin(props, prop_name, value, 2)

\* SetRadioButtonGroup with the size test len(group) > 0.
SetRadioButtonGroupOver0(props, prop_name, value) ==
    SetRadioButtonGroupMin(props, prop_name, value, 0)

\* The radio-button-group branch of set_property.
SetRadioButtonGroup(props, prop_name, value) ==
    IF ~LastCharIsDigit(prop_name)
    THEN [props |-> props, raised |-> TRUE]                     \* int(): ValueError
    ELSE
    LET existing_groups == CalcRadioButtonGroups(props)
        curr_group      == LastCharDigit(prop_name)
        curr_buttons    == IF Len(existing_groups) > curr_group
                           THEN existing_groups[curr_group + 1] ELSE <<>>
        reset           == ResetButtons(props, curr_buttons)
    IN  IF reset.raised THEN reset
        ELSE IF value.kind # "list" \/ ~(value.list \subseteq ButtonNames)
        THEN [props |-> reset.props, raised |-> TRUE]           \* buttons[button_name]: KeyError
        ELSE LET group == {ButtonOfName(n) : n \in value.list} IN
             IF Cardinality(group) > 1
             THEN [props |-> SetRadioButtons(reset.props, group), raised |-> FALSE]
             ELSE [props |-> reset.props, raised |-> FALSE]

\* The toggle branch with the codes of the two non-toggle modes exchanged.
SetToggleSwapped(props, prop_name, value) ==
    LET button_name == prop_name.suffix IN
    IF button_name \notin ButtonNames
    THEN [props |-> props, raised |-> FALSE]
    ELSE IF value.kind # "str" \/ value.str \notin DOMAIN TOGGLE_MODES
    THEN [props |-> props, raised |-> TRUE]
    ELSE [props |-> SetToggleMode(props, ButtonOfName(button_name),
                                  (3 - TOGGLE_MODES[value.str]) % 3),
          raised |-> FALSE]

\* The toggle branch that takes the button id itself for the bit position.
SetToggleOffByOne(props, prop_name, value) ==
    LET button_name == prop_name.suffix IN
    IF button_name \notin ButtonNames
    THEN [props |-> props, raised |-> FALSE]
    ELSE IF value.kind # "str" \/ value.str \notin DOMAIN TOGGLE_MODES
    THEN [props |-> props, raised |-> TRUE]
    ELSE [props |-> SetToggleMode(props, ButtonOfName(button_name) + 1,
                                  TOGGLE_MODES[value.str]),
          raised |-> FALSE]

\* The toggle branch without the test of the button name: the mode is set on
\* every button of the device in turn.
SetToggleNoNameTest(props, prop_name, value) ==
    LET button_name == prop_name.suffix IN
    IF button_name \notin ButtonNames
    THEN [props |-> props, raised |-> FALSE]
    ELSE IF value.kind # "str" \/ value.str \notin DOMAIN TOGGLE_MODES
    THEN [props |-> props, raised |-> TRUE]
    ELSE [props |-> SetToggleMode(props, NumButtons, TOGGLE_MODES[value.str]),
          raised |-> FALSE]

\* The toggle branch of set_property.
SetToggle(props, prop_name, value) ==
    LET button_name == prop_name.suffix IN
    IF button_name \notin ButtonNames
    THEN [props |-> props, raised |-> FALSE]                    \* no button matches
    ELSE IF value.kind # "str" \/ value.str \notin DOMAIN TOGGLE_MODES
    THEN [props |-> props, raised |-> TRUE]                     \* TOGGLE_MODES[value]: KeyError
    ELSE [props |-> SetToggleMode(props, ButtonOfName(button_name), TOGGLE_MODES[value.str]),
          raised |-> FALSE]

\* set_property that stores the negation of the value of an operating flag.
SetPropertyFlagInverted(flags, props, prop_name, value) ==
    IF value.kind = "bool" /\ prop_name.prefix = "" /\ prop_name.suffix \in FlagNames
    THEN [flags |-> [flags EXCEPT ![prop_name.suffix] = SetNewValue(@, 1 - value.num)],
          props |-> props, raised |-> FALSE]
    ELSE IF prop_name.prefix = "" /\ prop_name.suffix = RAMP_RATE
    THEN IF value.kind \in {"num", "bool"}
         THEN [flags |-> flags,
               props |-> [props EXCEPT ![RAMP_RATE] = SetNewValue(@, SecondsToRampRate(value.num))],
               raised |-> FALSE]
         ELSE [flags |-> flags, props |-> props, raised |-> TRUE]
    ELSE IF prop_name.prefix = RADIO_BUTTON_GROUP_PROP
    THEN LET r == SetRadioButtonGroup(props, prop_name, value)
         IN [flags |-> flags, props |-> r.props, raised |-> r.raised]
    ELSE IF prop_name.prefix = TOGGLE_PROP
    THEN LET r == SetToggle(props, prop_name, value)
         IN [flags |-> flags, props |-> r.props, raised |-> r.raised]
    ELSE IF prop_name.suffix \notin PropertyNames
    THEN [flags |-> flags, props |-> props, raised |-> TRUE]    \* device.properties[..]: KeyError
    ELSE [flags |-> flags,
          props |-> [props EXCEPT ![prop_name.suffix] = SetNewValue(@, value.num)],
          raised |-> FALSE]

\* set_property whose last branch stores the value in the on-mask of button 1
\* whatever the name.
SetPropertyGenericOnMask(flags, props, prop_name, value) ==
    IF value.kind = "bool" /\ prop_name.prefix = "" /\ prop_name.suffix \in FlagNames
    THEN [flags |-> [flags EXCEPT ![prop_name.suffix] = SetNewValue(@, value.num)],
          props |-> props, raised |-> FALSE]
    ELSE IF prop_name.prefix = "" /\ prop_name.suffix = RAMP_RATE
    THEN IF value.kind \in {"num", "bool"}
         THEN [flags |-> flags,
               props |-> [props EXCEPT ![RAMP_RATE] = SetNewValue(@, SecondsToRampRate(value.num))],
               raised |-> FALSE]
         ELSE [flags |-> flags, props |-> props, raised |-> TRUE]
    ELSE IF prop_name.prefix = RADIO_BUTTON_GROUP_PROP
    THEN LET r == SetRadioButtonGroup(props, prop_name, value)
         IN [flags |-> flags, props |-> r.props, raised |-> r.raised]
    ELSE IF prop_name.prefix = TOGGLE_PROP
    THEN LET r == SetToggle(props, prop_name, value)
         IN [flags |-> flags, props |-> r.props, raised |-> r.raised]
    ELSE IF prop_name.suffix \notin PropertyNames
    THEN [flags |-> flags, props |-> props, raised |-> TRUE]    \* device.properties[..]: KeyError
    ELSE [flags |-> flags,
          props |-> [props EXCEPT ![ON_MASK] = SetNewValue(@, value.num)],
          raised |-> FALSE]

\* set_property(device, prop_name, value): the operating flags and extended
\* properties after the call, and whether the call raised.
SetProperty(flags, props, prop_name, value) ==
    IF value.kind = "bool" /\ prop_name.prefix = "" /\ prop_name.suffix \in FlagNames
    THEN [flags |-> [flags EXCEPT ![prop_name.suffix] = SetNewValue(@, value.num)],
          props |-> props, raised |-> FALSE]
    ELSE IF prop_name.prefix = "" /\ prop_name.suffix = RAMP_RATE
    THEN IF value.kind \in {"num", "bool"}
         THEN [flags |-> flags,
               props |-> [props EXCEPT ![RAMP_RATE] = SetNewValue(@, SecondsToRampRate(value.num))],
               raised |-> FALSE]
         ELSE [flags |-> flags, props |-> props, raised |-> TRUE]
    ELSE IF prop_name.prefix = RADIO_BUTTON_GROUP_PROP
    THEN LET r == SetRadioButtonGroup(props, prop_name, value)
         IN [flags |-> flags, props |-> r.props, raised |-> r.raised]
    ELSE IF prop_name.prefix = TOGGLE_PROP
    THEN LET r == SetToggle(props, prop_name, value)
         IN [flags |-> flags, props |-> r.props, raised |-> r.raised]
    ELSE IF prop_name.suffix \notin PropertyNames
    THEN [flags |-> flags, props |-> props, raised |-> TRUE]    \* device.properties[..]: KeyError
    ELSE [flags |-> flags,
          props |-> [props EXCEPT ![prop_name.suffix] = SetNewValue(@, value.num)],
          raised |-> FALSE]

(***************************************************************************)
(* Requests of the front end.                                              *)
(***************************************************************************)
PlainName(n) == [prefix |-> "", suffix |-> n]
RadioName(n) == [prefix |-> RADIO_BUTTON_GROUP_PROP, suffix |-> n]
ToggleName(n) == [prefix |-> TOGGLE_PROP, suffix |-> n]

BoolValue(b) == [kind |-> "bool", num |-> IF b THEN 1 ELSE 0, list |-> {}, str |-> ""]
NumValue(n) == [kind |-> "num", num |-> n, list |-> {}, str |-> ""]
ListValue(l) == [kind |-> "list", num |-> 0, list |-> l, str |-> ""]
StrValue(t) == [kind |-> "str", num |-> 0, list |-> {}, str |-> t]

NoName == PlainName("")
NoValue == [kind |-> "none", num |-> 0, list |-> {}, str |-> ""]

\* Radio-group edits: every list of at most three button names and a list
\* with an unknown name, for group indices 0 and 1 and a name that ends in no digit.
RadioRequests ==
    {[name |-> RadioName(i), value |-> ListValue(l)] :
        i \in {"0", "1", "x"},
        l \in {x \in SUBSET ButtonNames : Cardinality(x) <= 3} \cup {{"no_such_button"}}}

\* Toggle edits: every button and an unknown one, every mode and an unknown one.
ToggleRequests ==
    {[name |-> ToggleName(n), value |-> StrValue(m)] :
        n \in ButtonNames \cup {"no_such_button"},
        m \in DOMAIN TOGGLE_MODES \cup {"no_such_mode"}}

\* Edits of an operating flag.
FlagRequests ==
    {[name |-> PlainName(LED_ON), value |-> BoolValue(b)] : b \in BOOLEAN}

\* Edits of the ramp rate, in tenths of a second.
RampRateRequests ==
    {[name |-> PlainName(RAMP_RATE), value |-> NumValue(t)] : t \in {45, 20}}

\* Edits of an on-mask by its own name, of an unknown name and of an
\* operating flag given a number.
OnMaskRequests ==
    {[name |-> PlainName(n), value |-> NumValue(v)] :
        n \in {ON_MASK, OnMaskName(3), "no_such_property"}, v \in {0, 2}}

\* Edits of a toggle mask by its own name.
ToggleMaskRequests ==
    {[name |-> PlainName(n), value |-> NumValue(v)] :
        n \in {NON_TOGGLE_MASK, NON_TOGGLE_ON_OFF_MASK, LED_ON}, v \in {1, 2}}

(***************************************************************************)
(* The state of the device and the command handlers.                       *)
(***************************************************************************)
\* Radio groups the device may hold when it is loaded.
InitRadioGroups == {{}, {{1, 2}}, {{1, 2}, {3, 4}}, {{2, 3, 4}}}

\* non_toggle_mask and non_toggle_on_off_mask the device may hold when loaded.
InitToggleMasks == {<<0, 0>>, <<2, 2>>, <<3, 1>>}

\* The committed mask of a button under the given radio groups.
LoadedMask(groups, button) ==
    IF \E g \in groups : button \in g
    THEN MaskOf((CHOOSE g \in groups : button \in g) \ {button})
    ELSE 0

\* The extended properties as loaded: committed values, no pending value.
LoadedProperties(groups, toggle) ==
    [p \in PropertyNames |->
        [value |-> CASE p = NON_TOGGLE_MASK -> toggle[1]
                     [] p = NON_TOGGLE_ON_OFF_MASK -> toggle[2]
                     [] p = RAMP_RATE -> 28
                     [] p = ON_LEVEL -> 255
                     [] p = LED_DIMMING -> 0
                     [] OTHER -> LoadedMask(groups, CHOOSE b \in Buttons :
                                                      p \in {OnMaskName(b), OffMaskName(b)}),
         new_value |-> None]]

RECURSIVE ButtonMasks(_)
\* The on-mask and off-mask names of the buttons from the given one on.
ButtonMasks(button) ==
    IF button > NumButtons THEN <<>>
    ELSE <<OnMaskName(button), OffMaskName(button)>> \o ButtonMasks(button + 1)

\* The collections of the KeypadLinc: nothing is read-only, button 1's masks
\* come first of the mask-named properties, after one plain property.
KeypadLayout ==
    [flags |-> <<PROGRAM_LOCK_ON, LED_ON>>,
     props |-> <<LED_DIMMING, ON_MASK, OFF_MASK, RAMP_RATE, ON_LEVEL,
                 NON_TOGGLE_MASK, NON_TOGGLE_ON_OFF_MASK>> \o ButtonMasks(2),
     read_only |-> {}]

\* A device whose first mask-named property is read-only, as are a flag and a
\* plain property.
ReadOnlyFirstMaskLayout ==
    [flags |-> <<LED_ON, PROGRAM_LOCK_ON>>,
     props |-> <<RAMP_RATE, NON_TOGGLE_MASK, ON_LEVEL, NON_TOGGLE_ON_OFF_MASK, LED_DIMMING>>
                 \o ButtonMasks(1),
     read_only |-> {PROGRAM_LOCK_ON, NON_TOGGLE_MASK, LED_DIMMING}]

\* A device all of whose mask-named properties are read-only.
ReadOnlyMasksLayout ==
    [flags |-> <<LED_ON, PROGRAM_LOCK_ON>>,
     props |-> ButtonMasks(1) \o <<ON_LEVEL, NON_TOGGLE_MASK, RAMP_RATE,
                                   NON_TOGGLE_ON_OFF_MASK, LED_DIMMING>>,
     read_only |-> {p \in PropertyNames : HasMask(p)}]

Layouts == {KeypadLayout, ReadOnlyFirstMaskLayout, ReadOnlyMasksLayout}

\* The payload of a reply that carries no rows.
NoResponse == [properties |-> <<>>, schema |-> <<>>]

\* The device of the given layout as loaded with the given radio groups and
\* toggle masks; no request handled yet and none in progress.
LoadedAs(lay, groups, toggle) ==
    /\ operating_flags = [f \in FlagNames |-> [value |-> 0, new_value |-> None]]
    /\ properties = LoadedProperties(groups, toggle)
    /\ msg = [type |-> "none", address |-> DEVICE_ADDRESS, name |-> NoName, value |-> NoValue]
    /\ result = "none"
    /\ requests = 0
    /\ layout = lay
    /\ response = NoResponse
    /\ replies = 0
    /\ pc = "idle"
    /\ calls = <<>>

\* The KeypadLinc as loaded.
Loaded(groups, toggle) == LoadedAs(KeypadLayout, groups, toggle)

InitRadio == \E groups \in InitRadioGroups : Loaded(groups, <<2, 2>>)

InitToggle == \E toggle \in InitToggleMasks : Loaded({{1, 2}}, toggle)

\* Devices of every layout, for the enumeration of the rows.
InitGet == \E lay \in Layouts, groups \in {{}, {{1, 2}}, {{2, 3, 4}}} :
              LoadedAs(lay, groups, <<2, 2>>)

\* The KeypadLinc with one radio group, for the commands that read and write
\* the device.
InitIO == Loaded({{1, 2}}, <<2, 2>>)

\* On-masks a button may hold when the device is loaded: no bit, its own bit
\* only, the bit of the next button only, the bits of all other buttons, and
\* all eight bits.
DecodeMasks(button) ==
    {0, 2 ^ (button - 1), 2 ^ (button % NumButtons), MaskOf(Buttons \ {button}),
     2 ^ MaskBits - 1}

\* The KeypadLinc as loaded with the given on-mask of every button.
LoadedMasks(masks) ==
    /\ operating_flags = [f \in FlagNames |-> [value |-> 0, new_value |-> None]]
    /\ properties = [p \in PropertyNames |->
                        IF \E b \in Buttons : p = OnMaskName(b)
                        THEN [value |-> masks[CHOOSE b \in Buttons : p = OnMaskName(b)],
                              new_value |-> None]
                        ELSE LoadedProperties({}, <<0, 0>>)[p]]
    /\ msg = [type |-> "none", address |-> DEVICE_ADDRESS, name |-> NoName, value |-> NoValue]
    /\ result = "none"
    /\ requests = 0
    /\ layout = KeypadLayout
    /\ response = NoResponse
    /\ replies = 0
    /\ pc = "idle"
    /\ calls = <<>>

\* Devices of every choice of on-masks, for the decoder of the radio groups.
InitDecode ==
    \E masks \in [Buttons -> UNION {DecodeMasks(b) : b \in Buttons}] :
        (\A b \in Buttons : masks[b] \in DecodeMasks(b)) /\ LoadedMasks(masks)

\* websocket_change_properties_record that returns control between the loop
\* that resets the old masks and the writing of the new ones: the state the
\* other handlers see has the old masks reset only.
ChangePropertiesYielding(req) ==
    LET r == SetProperty(operating_flags, properties, req.name,
                         IF req.value.kind = "list" THEN ListValue({}) ELSE req.value) IN
    /\ requests < MaxRequests
    /\ requests' = requests + 1
    /\ operating_flags' = r.flags
    /\ properties' = r.props
    /\ msg' = [type |-> "change", address |-> DEVICE_ADDRESS,
               name |-> req.name, value |-> req.value]
    /\ result' = IF r.raised THEN "error" ELSE "success"
    /\ response' = NoResponse
    /\ replies' = 1
    /\ UNCHANGED <<layout, pc, calls>>

\* websocket_change_properties_record for a device of the registry.
ChangeProperties(req) ==
    LET r == SetProperty(operating_flags, properties, req.name, req.value) IN
    /\ requests < MaxRequests
    /\ requests' = requests + 1
    /\ operating_flags' = r.flags
    /\ properties' = r.props
    /\ msg' = [type |-> "change", address |-> DEVICE_ADDRESS,
               name |-> req.name, value |-> req.value]
    /\ result' = IF r.raised THEN "error" ELSE "success"
    /\ response' = NoResponse
    /\ replies' = 1
    /\ UNCHANGED <<layout, pc, calls>>

\* websocket_reset_properties without its second loop: the pending values of
\* the extended properties stay.
ResetPropertiesFlagsOnly ==
    /\ operating_flags' = [f \in FlagNames |-> [operating_flags[f] EXCEPT !.new_value = None]]
    /\ msg' = [type |-> "reset", address |-> DEVICE_ADDRESS, name |-> NoName, value |-> NoValue]
    /\ result' = "success"
    /\ requests' = 0
    /\ response' = NoResponse
    /\ replies' = 1
    /\ UNCHANGED <<properties, layout, pc, calls>>

\* websocket_reset_properties for a device of the registry.
ResetProperties ==
    /\ operating_flags' = [f \in FlagNames |-> [operating_flags[f] EXCEPT !.new_value = None]]
    /\ properties' = [p \in PropertyNames |-> [properties[p] EXCEPT !.new_value = None]]
    /\ msg' = [type |-> "reset", address |-> DEVICE_ADDRESS, name |-> NoName, value |-> NoValue]
    /\ result' = "success"
    /\ requests' = 0
    /\ response' = NoResponse
    /\ replies' = 1
    /\ UNCHANGED <<layout, pc, calls>>

\* A handler without the return after notify_device_not_found: it goes on with
\* no device, fails, and a second error message is sent.
DeviceNotFoundNoReturn(type) ==
    /\ msg' = [type |-> type, address |-> BAD_ADDRESS, name |-> NoName, value |-> NoValue]
    /\ result' = "error"
    /\ requests < MaxRequests
    /\ requests' = requests + 1
    /\ response' = NoResponse
    /\ replies' = 2
    /\ UNCHANGED <<operating_flags, properties, layout, pc, calls>>

\* Any of the commands for an address that is not in the registry.
DeviceNotFound(type) ==
    /\ msg' = [type |-> type, address |-> BAD_ADDRESS, name |-> NoName, value |-> NoValue]
    /\ result' = "not_found"
    /\ requests < MaxRequests
    /\ requests' = requests + 1
    /\ response' = NoResponse
    /\ replies' = 1
    /\ UNCHANGED <<operating_flags, properties, layout, pc, calls>>

\* websocket_get_properties whose enumeration drops the pending values of the
\* extended properties it reads.
GetPropertiesRequestClearing ==
    /\ requests < MaxRequests
    /\ requests' = requests + 1
    /\ msg' = [type |-> "get", address |-> DEVICE_ADDRESS, name |-> NoName, value |-> NoValue]
    /\ result' = IF GetPropertiesRaises(layout, properties) THEN "error" ELSE "success"
    /\ response' = IF GetPropertiesRaises(layout, properties) THEN NoResponse
                    ELSE GetProperties(layout, operating_flags, properties)
    /\ replies' = 1
    /\ properties' = [p \in PropertyNames |-> [properties[p] EXCEPT !.new_value = None]]
    /\ UNCHANGED <<operating_flags, layout, pc, calls>>

\* websocket_get_properties for a device of the registry.
GetPropertiesRequest ==
    /\ requests < MaxRequests
    /\ requests' = requests + 1
    /\ msg' = [type |-> "get", address |-> DEVICE_ADDRESS, name |-> NoName, value |-> NoValue]
    /\ result' = IF GetPropertiesRaises(layout, properties) THEN "error" ELSE "success"
    /\ response' = IF GetPropertiesRaises(layout, properties) THEN NoResponse
                    ELSE GetProperties(layout, operating_flags, properties)
    /\ replies' = 1
    /\ UNCHANGED <<operating_flags, properties, layout, pc, calls>>

\* The outcome of a device write on a collection: the pending values are
\* committed when the device acknowledges, and stay pending when it does not.
Written(collection, ok) ==
    [n \in DOMAIN collection |->
        IF ok /\ collection[n].new_value # None
        THEN [value |-> collection[n].new_value, new_value |-> None]
        ELSE collection[n]]

\* websocket_write_properties / websocket_load_properties up to the first
\* await: the device is found and its first operation is called.
BeginIO(type) ==
    /\ pc = "idle"
    /\ requests < MaxRequests
    /\ requests' = requests + 1
    /\ pc' = IF type = "write" THEN "write_op_flags" ELSE "read_op_flags"
    /\ calls' = IF type = "write" THEN <<"async_write_op_flags">> ELSE <<"async_read_op_flags">>
    /\ UNCHANGED <<operating_flags, properties, msg, result, layout, response, replies>>

\* The handler calling the operation of the operating flags a second time in
\* place of the operation of the extended properties.
OpFlagsDoneTwice ==
    /\ pc \in {"write_op_flags", "read_op_flags"}
    /\ IF pc = "write_op_flags"
       THEN /\ \E ok \in BOOLEAN : operating_flags' = Written(operating_flags, ok)
            /\ pc' = "write_ext_properties"
            /\ calls' = Append(calls, "async_write_op_flags")
       ELSE /\ UNCHANGED operating_flags
            /\ pc' = "read_ext_properties"
            /\ calls' = Append(calls, "async_read_op_flags")
    /\ UNCHANGED <<properties, msg, result, requests, layout, response, replies>>

\* The first operation completes and the handler calls the second one.
OpFlagsDone ==
    /\ pc \in {"write_op_flags", "read_op_flags"}
    /\ IF pc = "write_op_flags"
       THEN /\ \E ok \in BOOLEAN : operating_flags' = Written(operating_flags, ok)
            /\ pc' = "write_ext_properties"
            /\ calls' = Append(calls, "async_write_ext_properties")
       ELSE /\ UNCHANGED operating_flags
            /\ pc' = "read_ext_properties"
            /\ calls' = Append(calls, "async_read_ext_properties")
    /\ UNCHANGED <<properties, msg, result, requests, layout, response, replies>>

\* The second operation completes and the handler sends the result.
ExtPropertiesDone ==
    /\ pc \in {"write_ext_properties", "read_ext_properties"}
    /\ IF pc = "write_ext_properties"
       THEN \E ok \in BOOLEAN : properties' = Written(properties, ok)
       ELSE UNCHANGED properties
    /\ msg' = [type |-> IF pc = "write_ext_properties" THEN "write" ELSE "load",
               address |-> DEVICE_ADDRESS, name |-> NoName, value |-> NoValue]
    /\ result' = "success"
    /\ response' = NoResponse
    /\ replies' = 1
    /\ pc' = "idle"
    /\ UNCHANGED <<operating_flags, requests, layout, calls>>

NextRadio ==
    \/ \E req \in RadioRequests : ChangeProperties(req)
    \/ \E req \in OnMaskRequests : ChangeProperties(req)
    \/ ResetProperties
    \/ \E type \in {"get", "change", "write", "load", "reset"} : DeviceNotFound(type)

NextToggle ==
    \/ \E req \in ToggleRequests : ChangeProperties(req)
    \/ \E req \in ToggleMaskRequests \cup FlagRequests \cup RampRateRequests : ChangeProperties(req)
    \/ ResetProperties
    \/ \E type \in {"get", "change", "write", "load", "reset"} : DeviceNotFound(type)

\* Edits through the rows a get request shows, and get requests.
GetRequests ==
    {[name |-> RadioName(i), value |-> ListValue(l)] :
        i \in {"0", "1"}, l \in {{GroupName(1), GroupName(3)}, {GroupName(3), GroupName(4)},
                                 {GroupName(2)}}}
      \cup {[name |-> PlainName(RAMP_RATE), value |-> NumValue(t)] : t \in {5, 45, 20, 4800}}
      \cup {[name |-> PlainName(LED_ON), value |-> BoolValue(TRUE)]}

\* The names of the properties an edit writes are not read-only.
Editable(req) ==
    IF req.name.prefix = RADIO_BUTTON_GROUP_PROP
    THEN \A p \in PropertyNames : HasMask(p) => p \notin layout.read_only
    ELSE req.name.suffix \notin layout.read_only

NextGet ==
    \/ GetPropertiesRequest
    \/ \E req \in GetRequests : Editable(req) /\ ChangeProperties(req)
    \/ ResetProperties
    \/ \E type \in {"get", "change", "write", "load", "reset"} : DeviceNotFound(type)

\* Edits while the device is written or read.
IORequests ==
    {[name |-> PlainName(LED_ON), value |-> BoolValue(b)] : b \in BOOLEAN}
      \cup {[name |-> PlainName(ON_MASK), value |-> NumValue(v)] : v \in {2, 100}}
      \cup {[name |-> PlainName(PROGRAM_LOCK_ON), value |-> BoolValue(TRUE)]}

NextIO ==
    \/ \E type \in {"write", "load"} : BeginIO(type)
    \/ OpFlagsDone
    \/ ExtPropertiesDone
    \/ \E req \in IORequests : ChangeProperties(req)
    \/ GetPropertiesRequest
    \/ ResetProperties
    \/ \E type \in {"get", "change", "write", "load", "reset"} : DeviceNotFound(type)

\* Edits that leave a pending on-mask: button 2 gets its own bit only.
DecodeRequests ==
    {[name |-> PlainName(OnMaskName(2)), value |-> NumValue(2)]}

NextDecode ==
    \/ GetPropertiesRequest
    \/ \E req \in DecodeRequests : ChangeProperties(req)
    \/ ResetProperties

\* Radio-group edits of the first group and of a new one, one of them with an
\* unknown button name, and an edit of an operating flag.
AtomicRequests ==
    {[name |-> RadioName(i), value |-> ListValue(l)] :
        i \in {"0", "1"}, l \in {{GroupName(1), GroupName(3)}, {GroupName(3), GroupName(4)},
                                 {GroupName(2)}, {"no_such_button"}}}
      \cup {[name |-> PlainName(LED_ON), value |-> BoolValue(TRUE)]}

\* Change requests among the steps of the write and load commands.
NextAtomic ==
    \/ \E type \in {"write", "load"} : BeginIO(type)
    \/ OpFlagsDone
    \/ ExtPropertiesDone
    \/ \E req \in AtomicRequests : ChangeProperties(req)
    \/ GetPropertiesRequest
    \/ ResetProperties

\* Radio-group edits and resets, and nothing else.
NextRadioEdits ==
    \/ \E req \in RadioRequests : ChangeProperties(req)
    \/ ResetProperties

\* Enumeration of the rows of devices of every layout.
SpecGet == InitGet /\ [][NextGet]_vars

\* The write and load commands among the other commands.
SpecIO == InitIO /\ [][NextIO]_vars

\* The decoder of the radio groups on devices of every choice of on-masks.
SpecDecode == InitDecode /\ [][NextDecode]_vars

\* Radio-group edits while the device is written or read.
SpecAtomic == InitIO /\ [][NextAtomic]_vars

\* Sequences of radio-group edits and resets from a device with symmetric masks.
SpecRadioEdits == InitRadio /\ [][NextRadioEdits]_vars

\* Edits of the radio-button groups and of the on-masks.
SpecRadio == InitRadio /\ [][NextRadio]_vars

\* Edits of the toggle modes, the toggle masks, the flags and the ramp rate.
SpecToggle == InitToggle /\ [][NextToggle]_vars

(***************************************************************************)
(* Notions shared by the properties below.                                 *)
(***************************************************************************)
\* The last request was a change request that set_property handled.
Changed == msg.type = "change" /\ msg.address = DEVICE_ADDRESS

\* The last request was a radio-group edit naming only buttons of the device
\* and set_property returned normally.
RadioEdited(m, res) ==
    /\ m.type = "change" /\ m.address = DEVICE_ADDRESS
    /\ m.name.prefix = RADIO_BUTTON_GROUP_PROP
    /\ m.value.kind = "list" /\ m.value.list \subseteq ButtonNames
    /\ res = "success"

\* The buttons a radio-group edit lists.
Listed(m) == {ButtonOfName(n) : n \in m.value.list}

\* The decoded groups, each as the set of its buttons.
GroupSets(props) ==
    LET g == CalcRadioButtonGroups(props) IN {Range(g[i]) : i \in 1..Len(g)}

\* The buttons of the group a radio-group name addresses (none when the
\* index is past the decoded groups).
AddressedGroup(props, name) ==
    LET g == CalcRadioButtonGroups(props) IN
    IF Len(g) > LastCharDigit(name) THEN Range(g[LastCharDigit(name) + 1]) ELSE {}

\* The effective (pending if staged, else committed) value of a property.
Effective(props, p) == GetUsableValue(props[p]).value

ValidList(props, m) ==
    LET addressed == AddressedGroup(props, m.name) IN
    /\ \A g \in GroupSets(props) \ {addressed} : g \cap addressed = {}
    /\ \A b \in Listed(m) : b \in addressed \/ b \notin UNION GroupSets(props)

C2_GroupsDisjoint ==
    LET g == CalcRadioButtonGroups(properties) IN
    \A i, j \in 1..Len(g) : i # j => Range(g[i]) \cap Range(g[j]) = {}

(***************************************************************************)
(* C3.  The masks a radio-group edit writes.                               *)
(***************************************************************************)
\* C3 as stated: after a radio-group edit with 2 or more buttons every listed
\* button has pending on-mask = pending off-mask = the bits of the other listed
\* buttons, and both properties are dirty.
C3_MasksPendingAndDirty ==
    (RadioEdited(msg, result) /\ Cardinality(Listed(msg)) >= 2)
        => \A b \in Listed(msg) :
              /\ properties[OnMaskName(b)].new_value = MaskOf(Listed(msg) \ {b})
              /\ properties[OffMaskName(b)].new_value = MaskOf(Listed(msg) \ {b})
              /\ IsDirty(properties[OnMaskName(b)])
              /\ IsDirty(properties[OffMaskName(b)])

\* C3 amended: after such an edit every listed button has effective on-mask =
\* effective off-mask = the bits of the other listed buttons (its own bit
\* clear); each of the two properties holds that mask as pending value and is
\* dirty, except when the mask equals its committed value: then it holds no
\* pending value and is not dirty.
C3_MasksEffective ==
    (RadioEdited(msg, result) /\ Cardinality(Listed(msg)) >= 2)
        => \A b \in Listed(msg) : \A p \in {OnMaskName(b), OffMaskName(b)} :
              LET mask == MaskOf(Listed(msg) \ {b}) IN
              /\ Effective(properties, p) = mask
              /\ ~BitIsSet(mask, b - 1)
              /\ \A c \in Buttons \ {b} : BitIsSet(mask, c - 1) <=> c \in Listed(msg)
              /\ IF mask = properties[p].value
                 THEN properties[p].new_value = None /\ ~IsDirty(properties[p])
                 ELSE properties[p].new_value = mask /\ IsDirty(properties[p])

\* C3 witness: buttons 2, 3 and 4 listed on a device whose buttons 1 and 2
\* were grouped: button 2's masks become 12 and are dirty.
C3_Witness ==
    /\ RadioEdited(msg, result)
    /\ Listed(msg) = {2, 3, 4}
    /\ properties[OnMaskName(2)] = [value |-> 1, new_value |-> 12]
    /\ properties[OffMaskName(2)] = [value |-> 1, new_value |-> 12]
    /\ IsDirty(properties[OnMaskName(2)])

(***************************************************************************)
(* C4.  A radio-group edit with fewer than two buttons.                    *)
(***************************************************************************)
\* The on-masks and off-masks of the given buttons are the same in both stores.
SameMasks(props1, props2, buttons) ==
    \A b \in buttons : /\ props1[OnMaskName(b)] = props2[OnMaskName(b)]
                       /\ props1[OffMaskName(b)] = props2[OffMaskName(b)]

\* C4 as stated: a radio-group edit with one listed button or none leaves
\* every on-mask and off-mask (committed and pending) as it was, whichever
\* group index the name carries.
C4_MasksUnchanged ==
    [][(RadioEdited(msg', result') /\ Cardinality(Listed(msg')) <= 1)
       => SameMasks(properties, properties', Buttons)]_vars

\* C4 amended: such an edit writes no group: it leaves the masks of every
\* button outside the addressed group (committed and pending) as they were,
\* and gives the buttons of the addressed group (when the index names a
\* decoded group) effective on-mask and off-mask 0, which dissolves that group.
C4_NoGroupWritten ==
    [][(RadioEdited(msg', result') /\ Cardinality(Listed(msg')) <= 1)
       => LET addressed == AddressedGroup(properties, msg'.name) IN
          /\ SameMasks(properties, properties', Buttons \ addressed)
          /\ \A b \in addressed :
                /\ Effective(properties', OnMaskName(b)) = 0
                /\ Effective(properties', OffMaskName(b)) = 0
          /\ addressed \notin GroupSets(properties')]_vars

\* C4 witness: a one-button edit addressed to the group of buttons 1 and 2
\* has dissolved it.
C4_Witness ==
    /\ RadioEdited(msg, result)
    /\ Cardinality(Listed(msg)) = 1
    /\ properties[ON_MASK] = [value |-> 2, new_value |-> 0]
    /\ properties[OnMaskName(2)] = [value |-> 1, new_value |-> 0]
    /\ GroupSets(properties) = {}

(***************************************************************************)
(* C5.  The usable value of a property and its dirty flag.                 *)
(***************************************************************************)
\* The last request was an edit of an extended property by its own name that
\* set_property stored with the generic branch.
PropertyEdited ==
    /\ Changed /\ result = "success"
    /\ msg.name.prefix = "" /\ msg.name.suffix \in PropertyNames \ {RAMP_RATE}
    /\ msg.value.kind = "num"

ToggleEdited(m, res) ==
    /\ m.type = "change" /\ m.address = DEVICE_ADDRESS
    /\ m.name.prefix = TOGGLE_PROP /\ m.name.suffix \in ButtonNames
    /\ m.value.kind = "str" /\ m.value.str \in DOMAIN TOGGLE_MODES
    /\ res = "success"

\* The button and the mode code of a toggle edit.
EditedButton(m) == ButtonOfName(m.name.suffix)
EditedMode(m) == TOGGLE_MODES[m.value.str]

\* The toggle mode of a button decoded from the committed masks alone.
CommittedMode(props, button) ==
    ToggleButtonValue([props[NON_TOGGLE_MASK] EXCEPT !.new_value = None],
                      [props[NON_TOGGLE_ON_OFF_MASK] EXCEPT !.new_value = None],
                      button).value

\* The masks a toggle edit of the given button and mode makes of the given ones.
EditedToggleMask(mask, button, mode) == SetBit(mask, button - 1, mode # 0)
EditedOnOffMask(mask, button, mode) == SetBit(mask, button - 1, mode = 1)

\* C6: a property whose staged edit equals its committed value is not dirty:
\* after a toggle edit each of the two masks whose edited value is its
\* committed value has no pending value and is not dirty, and each whose value
\* did change holds it as pending value and is dirty (committed masks 2 and 2,
\* button 1 to Non-Toggle-Off: non_toggle_on_off_mask stays clean,
\* non_toggle_mask is dirty).
C6_EqualEditNotDirty ==
    ToggleEdited(msg, result) =>
        LET b  == EditedButton(msg)
            m  == EditedMode(msg)
            t  == properties[NON_TOGGLE_MASK]
            o  == properties[NON_TOGGLE_ON_OFF_MASK]
            nt == EditedToggleMask(t.value, b, m)
            no == EditedOnOffMask(o.value, b, m)
        IN /\ IF nt = t.value THEN t.new_value = None /\ ~IsDirty(t)
                              ELSE t.new_value = nt /\ IsDirty(t)
           /\ IF no = o.value THEN o.new_value = None /\ ~IsDirty(o)
                              ELSE o.new_value = no /\ IsDirty(o)

\* C6 witness: the state of the test after button 1 is set to Non-Toggle-Off.
C6_Witness ==
    /\ ToggleEdited(msg, result)
    /\ EditedButton(msg) = 1 /\ msg.value.str = NON_TOGGLE_OFF_MODE
    /\ properties[NON_TOGGLE_MASK] = [value |-> 2, new_value |-> 3]
    /\ properties[NON_TOGGLE_ON_OFF_MASK] = [value |-> 2, new_value |-> None]
    /\ IsDirty(properties[NON_TOGGLE_MASK])
    /\ ~IsDirty(properties[NON_TOGGLE_ON_OFF_MASK])

\* C7: _toggle_button_value gives button b, with bit = b - 1 of the effective
\* masks, mode 0 when the bit is clear in non_toggle_mask, 1 when it is set in
\* both masks and 2 when it is set in non_toggle_mask and clear in
\* non_toggle_on_off_mask; with committed masks 2 and 2 and no pending value
\* button 1 has mode 0, button 2 mode 1 and neither row is modified.
C7_ToggleClassification ==
    LET t == properties[NON_TOGGLE_MASK]
        o == properties[NON_TOGGLE_ON_OFF_MASK]
        rows == GetToggleProperties(properties)
    IN /\ \A b \in Buttons :
            LET inT == BitIsSet(Effective(properties, NON_TOGGLE_MASK), b - 1)
                inO == BitIsSet(Effective(properties, NON_TOGGLE_ON_OFF_MASK), b - 1)
            IN /\ ~inT => rows[b].value = 0
               /\ (inT /\ inO) => rows[b].value = 1
               /\ (inT /\ ~inO) => rows[b].value = 2
       /\ (t = [value |-> 2, new_value |-> None] /\ o = [value |-> 2, new_value |-> None])
            => /\ rows[1].value = 0 /\ ~rows[1].modified
               /\ rows[2].value = 1 /\ ~rows[2].modified

\* C7 witness: the three modes are decoded for three buttons of one device,
\* one of them from a pending value.
C7_Witness ==
    LET rows == GetToggleProperties(properties) IN
    /\ rows[1].value = 1 /\ rows[2].value = 2 /\ rows[3].value = 0 /\ rows[4].value = 1
    /\ rows[4].modified /\ ~rows[1].modified

\* C8: after a toggle edit of button b with mode m, _get_toggle_properties
\* reports mode m for b, and b's bit is clear in both effective masks for
\* Toggle-On/Off, set in both for Non-Toggle-On, and set in non_toggle_mask and
\* clear in non_toggle_on_off_mask for Non-Toggle-Off.
C8_ToggleRoundTrip ==
    ToggleEdited(msg, result) =>
        LET b   == EditedButton(msg)
            m   == EditedMode(msg)
            inT == BitIsSet(Effective(properties, NON_TOGGLE_MASK), b - 1)
            inO == BitIsSet(Effective(properties, NON_TOGGLE_ON_OFF_MASK), b - 1)
        IN /\ GetToggleProperties(properties)[b].value = m
           /\ GetToggleProperties(properties)[b].name = msg.name
           /\ msg.value.str = TOGGLE_ON_OFF_MODE => ~inT /\ ~inO
           /\ msg.value.str = NON_TOGGLE_ON_MODE => inT /\ inO
           /\ msg.value.str = NON_TOGGLE_OFF_MODE => inT /\ ~inO

\* C8 witness: button 3 was set to Non-Toggle-Off and its row reports mode 2.
C8_Witness ==
    /\ ToggleEdited(msg, result)
    /\ EditedButton(msg) = 3 /\ msg.value.str = NON_TOGGLE_OFF_MODE
    /\ GetToggleProperties(properties)[3].value = 2
    /\ GetToggleProperties(properties)[3].modified

\* C9 as stated: a toggle edit of button b makes the new pending masks of the
\* effective masks by setting or clearing b's bit, and the effective mode of
\* every other button is the same after the edit as before it.
C9_OthersKeepEffectiveMode ==
    [][ToggleEdited(msg', result') =>
          LET b == EditedButton(msg')
              m == EditedMode(msg')
          IN /\ Effective(properties', NON_TOGGLE_MASK) =
                   EditedToggleMask(Effective(properties, NON_TOGGLE_MASK), b, m)
             /\ Effective(properties', NON_TOGGLE_ON_OFF_MASK) =
                   EditedOnOffMask(Effective(properties, NON_TOGGLE_ON_OFF_MASK), b, m)
             /\ \A c \in Buttons \ {b} :
                   GetToggleProperties(properties')[c].value =
                      GetToggleProperties(properties)[c].value]_vars

\* C9 amended: a toggle edit of button b changes only b's bit of the committed
\* masks: the effective masks after the edit are the committed masks with b's
\* bit set or cleared, so every other button then has the mode decoded from
\* the committed masks, and a mode staged for it by an earlier toggle edit
\* that was not written is dropped.
C9_OthersGetCommittedMode ==
    ToggleEdited(msg, result) =>
        LET b == EditedButton(msg)
            m == EditedMode(msg)
        IN /\ Effective(properties, NON_TOGGLE_MASK) =
                 EditedToggleMask(properties[NON_TOGGLE_MASK].value, b, m)
           /\ Effective(properties, NON_TOGGLE_ON_OFF_MASK) =
                 EditedOnOffMask(properties[NON_TOGGLE_ON_OFF_MASK].value, b, m)
           /\ \A c \in Buttons \ {b} :
                 /\ GetToggleProperties(properties)[c].value = CommittedMode(properties, c)
                 /\ ~GetToggleProperties(properties)[c].modified

\* C9 witness: the last state of the test: after edits of button 1, button 2
\* is set to Toggle-On/Off on committed masks 2 and 2; both pending masks are 0.
C9_Witness ==
    /\ ToggleEdited(msg, result)
    /\ requests = 2
    /\ EditedButton(msg) = 2 /\ msg.value.str = TOGGLE_ON_OFF_MODE
    /\ properties[NON_TOGGLE_MASK] = [value |-> 2, new_value |-> 0]
    /\ properties[NON_TOGGLE_ON_OFF_MASK] = [value |-> 2, new_value |-> 0]
    /\ GetToggleProperties(properties)[1].value = 0

(***************************************************************************)
(* C10.  set_property never raises.                                        *)
(***************************************************************************)
\* C10: every change request for a device of the registry returns normally:
\* set_property raises for no property name and value.
C10_NeverRaises == Changed => result = "success"

(***************************************************************************)
(* C11.  Reset.                                                            *)
(***************************************************************************)
\* A collection with its pending values taken away.
CommittedOnly(collection) ==
    [n \in DOMAIN collection |-> [collection[n] EXCEPT !.new_value = None]]

\* The reply to the last request was the success of a reset.
ResetDone(m, res) == m.type = "reset" /\ m.address = DEVICE_ADDRESS /\ res = "success"

\* C11: a reset request clears the pending value of every operating flag and
\* every extended property, whatever edits went before: the rows get_properties
\* then returns are all unmodified and are the rows decoded from the committed
\* values the device had before the reset.
C11_ResetClearsPending ==
    [][ResetDone(msg', result') =>
          LET rows == GetProperties(layout', operating_flags', properties').properties IN
          /\ \A f \in FlagNames : operating_flags'[f].new_value = None
          /\ \A p \in PropertyNames : properties'[p].new_value = None
          /\ \A i \in 1..Len(rows) : ~rows[i].modified
          /\ rows = GetProperties(layout, CommittedOnly(operating_flags),
                                  CommittedOnly(properties)).properties]_vars

\* C11 witness: the KeypadLinc right after a reset: nothing is pending and
\* get_properties reports every row unmodified, the committed radio group
\* {2, 3, 4} among them.
C11_Witness ==
    LET rows == GetProperties(layout, operating_flags, properties).properties IN
    /\ ResetDone(msg, result)
    /\ layout = KeypadLayout
    /\ \A p \in PropertyNames : properties[p].new_value = None
    /\ \A i \in 1..Len(rows) : ~rows[i].modified
    /\ \E i \in 1..Len(rows) :
          rows[i].value.list = <<GroupName(2), GroupName(3), GroupName(4)>>

(***************************************************************************)
(* C12.  Edit of an operating flag.                                        *)
(***************************************************************************)
\* The last request was an edit of an operating flag with a boolean value.
FlagEdited(m, res) ==
    /\ m.type = "change" /\ m.address = DEVICE_ADDRESS /\ res = "success"
    /\ m.name.prefix = "" /\ m.name.suffix \in FlagNames
    /\ m.value.kind = "bool"

\* C12 as stated: set_property with a boolean value and the name of an
\* operating flag sets that flag's pending value to the given value, marks it
\* dirty when it differs from the committed value, and changes no other
\* operating flag and no extended property.
C12_FlagPendingIsGiven ==
    [][FlagEdited(msg', result') =>
          LET f == msg'.name.suffix IN
          /\ operating_flags'[f].new_value = msg'.value.num
          /\ IsDirty(operating_flags'[f]) <=> msg'.value.num # operating_flags[f].value
          /\ \A g \in FlagNames \ {f} : operating_flags'[g] = operating_flags[g]
          /\ properties' = properties]_vars

\* C12 amended: the edit makes the given value the flag's effective value:
\* when it differs from the committed value it is the flag's pending value and
\* the flag is dirty, when it equals the committed value the flag has no
\* pending value and is not dirty; the committed value, every other operating
\* flag and every extended property are unchanged.
C12_FlagEffectiveIsGiven ==
    [][FlagEdited(msg', result') =>
          LET f == msg'.name.suffix
              v == msg'.value.num
          IN /\ operating_flags'[f].value = operating_flags[f].value
             /\ GetUsableValue(operating_flags'[f]).value = v
             /\ IF v # operating_flags[f].value
                THEN operating_flags'[f].new_value = v /\ IsDirty(operating_flags'[f])
                ELSE operating_flags'[f].new_value = None /\ ~IsDirty(operating_flags'[f])
             /\ \A g \in FlagNames \ {f} : operating_flags'[g] = operating_flags[g]
             /\ properties' = properties]_vars

\* C12 witness: led_on, committed false, was set to true and is dirty, beside
\* a pending value of non_toggle_mask that the edit left alone.
C12_Witness ==
    /\ FlagEdited(msg, result)
    /\ msg.name.suffix = LED_ON /\ msg.value.num = 1
    /\ operating_flags[LED_ON] = [value |-> 0, new_value |-> 1]
    /\ operating_flags[PROGRAM_LOCK_ON].new_value = None
    /\ properties[NON_TOGGLE_MASK].new_value # None

(***************************************************************************)
(* C13.  Edit of an extended property by its own name.                     *)
(***************************************************************************)
\* C13 as stated: set_property with the name of an extended property that is
\* neither the ramp rate nor a radio-group or toggle name stores the given
\* value as that property's pending value, marks it dirty, and changes no
\* other property.
C13_PendingIsGivenAndDirty ==
    [][PropertyEdited' =>
          LET p == msg'.name.suffix IN
          /\ properties'[p].new_value = msg'.value.num
          /\ IsDirty(properties'[p])
          /\ \A q \in PropertyNames \ {p} : properties'[q] = properties[q]
          /\ operating_flags' = operating_flags]_vars

\* C13 amended: the edit stores the given value unchanged as the property's
\* pending value and marks it dirty unless the value equals the committed
\* value, in which case the property is left with no pending value and not
\* dirty; the committed value and every other property are unchanged.
C13_PendingIsGivenUnlessCommitted ==
    [][PropertyEdited' =>
          LET p == msg'.name.suffix
              v == msg'.value.num
          IN /\ properties'[p].value = properties[p].value
             /\ IF v # properties[p].value
                THEN properties'[p].new_value = v /\ IsDirty(properties'[p])
                ELSE properties'[p].new_value = None /\ ~IsDirty(properties'[p])
             /\ \A q \in PropertyNames \ {p} : properties'[q] = properties[q]
             /\ operating_flags' = operating_flags]_vars

\* C13 witness: on_mask_3, committed 0, was given 2 by its own name and is
\* dirty, while the committed group {1, 2} is untouched.
C13_Witness ==
    /\ PropertyEdited
    /\ msg.name.suffix = OnMaskName(3) /\ msg.value.num = 2
    /\ properties[OnMaskName(3)] = [value |-> 0, new_value |-> 2]
    /\ IsDirty(properties[OnMaskName(3)])
    /\ properties[ON_MASK] = [value |-> 2, new_value |-> None]

(***************************************************************************)
(* C14.  Edit of the ramp rate.                                            *)
(***************************************************************************)
\* The last request was an edit of the ramp rate with a number of seconds.
RampRateEdited(m, res) ==
    /\ m.type = "change" /\ m.address = DEVICE_ADDRESS /\ res = "success"
    /\ m.name = [prefix |-> "", suffix |-> RAMP_RATE]
    /\ m.value.kind = "num"

\* The ramp-rate row and schema entry of get_properties.
RampRateRow(lay, flags, props) ==
    LET g == GetProperties(lay, flags, props)
        i == CHOOSE k \in 1..Len(g.properties) :
                g.properties[k].name = [prefix |-> "", suffix |-> RAMP_RATE]
    IN [row |-> g.properties[i], schema |-> g.schema[i]]

\* The rate code of a time the schema lists.
CodeOf(seconds) == CHOOSE c \in 1..(Len(RampRates) - 1) : RampRateToSeconds(c) = seconds

C15_NotFound ==
    [][(msg'.address = BAD_ADDRESS /\ pc' = pc) =>
          /\ msg'.type \in {"get", "change", "write", "load", "reset"}
          /\ result' = "not_found"
          /\ replies' = 1
          /\ response' = NoResponse
          /\ operating_flags' = operating_flags
          /\ properties' = properties
          /\ calls' = calls]_vars

\* C15 witness: a write request for the unknown address was answered with
\* not-found while led_on holds a pending value: it is still pending and no
\* device operation was called since the device was read.
C15_Witness ==
    /\ msg.address = BAD_ADDRESS /\ msg.type = "write"
    /\ result = "not_found" /\ replies = 1
    /\ operating_flags[LED_ON] = [value |-> 0, new_value |-> 1]
    /\ calls = <<"async_read_op_flags", "async_read_ext_properties">>
    /\ pc = "idle"

(***************************************************************************)
(* C16.  The write and load commands.                                      *)
(***************************************************************************)
\* A property either keeps its state or has its pending value committed.
KeptOrWritten(before, after) ==
    \A n \in DOMAIN before :
        \/ after[n] = before[n]
        \/ before[n].new_value # None
             /\ after[n] = [value |-> before[n].new_value, new_value |-> None]

\* C16: a write request for a known device calls the device's write of the
\* operating flags once and then its write of the extended properties once,
\* and sends the success result only when both have completed; a load request
\* does the same with the two read operations; the handlers send no rows and
\* stage no value (they call neither get_properties nor set_property).
C16_IOOrder ==
    [][pc' # pc =>
          /\ pc' = "write_op_flags" => calls' = <<"async_write_op_flags">>
          /\ pc' = "read_op_flags" => calls' = <<"async_read_op_flags">>
          /\ pc' = "write_ext_properties" =>
                calls' = <<"async_write_op_flags", "async_write_ext_properties">>
          /\ pc' = "read_ext_properties" =>
                calls' = <<"async_read_op_flags", "async_read_ext_properties">>
          /\ pc' # "idle" => msg' = msg /\ result' = result /\ replies' = replies
                              /\ response' = response
          /\ pc' = "idle" =>
                /\ msg'.type = (IF pc = "write_ext_properties" THEN "write" ELSE "load")
                /\ msg'.address = DEVICE_ADDRESS
                /\ result' = "success" /\ replies' = 1 /\ response' = NoResponse
                /\ calls' = calls
                /\ calls' = IF pc = "write_ext_properties"
                            THEN <<"async_write_op_flags", "async_write_ext_properties">>
                            ELSE <<"async_read_op_flags", "async_read_ext_properties">>
          /\ KeptOrWritten(operating_flags, operating_flags')
          /\ KeptOrWritten(properties, properties')
          /\ pc \in {"read_op_flags", "read_ext_properties"} =>
                operating_flags' = operating_flags /\ properties' = properties]_vars

\* C16 witness: a write request was answered with success after the two write
\* operations, in this order, and the pending led_on = true is committed.
C16_Witness ==
    /\ msg.type = "write" /\ msg.address = DEVICE_ADDRESS /\ result = "success"
    /\ pc = "idle"
    /\ calls = <<"async_write_op_flags", "async_write_ext_properties">>
    /\ operating_flags[LED_ON] = [value |-> 1, new_value |-> None]

(***************************************************************************)
(* C17, C18.  The rows of get_properties.                                  *)
(***************************************************************************)
\* The names of the rows, in order.
RowNames(rows) == [i \in 1..Len(rows) |-> rows[i].name]

\* The names of a sequence that are not read-only, in order, as row names.
Visible(lay, names) ==
    LET Shown(n) == n \notin lay.read_only
        shown == SelectSeq(names, Shown)
    IN [i \in 1..Len(shown) |-> [prefix |-> "", suffix |-> shown[i]]]

\* The positions of the mask-named properties among the visible ones.
MaskPositions(lay) ==
    {i \in 1..Len(Visible(lay, lay.props)) : HasMask(Visible(lay, lay.props)[i].suffix)}

\* The names of the toggle rows followed by the names of the radio-group rows.
ClusterNames(props) ==
    [b \in 1..NumButtons |-> [prefix |-> TOGGLE_PROP, suffix |-> GroupName(b)]]
      \o RowNames(GetRadioButtonProperties(props).properties)

\* The row names the ordering rule gives.
OrderedNames(lay, props) ==
    LET shown == Visible(lay, lay.props)
        masks == MaskPositions(lay)
    IN IF masks = {}
       THEN Visible(lay, lay.flags) \o shown
       ELSE LET first == CHOOSE i \in masks : \A j \in masks : i <= j
            IN Visible(lay, lay.flags) \o SubSeq(shown, 1, first - 1)
                 \o ClusterNames(props) \o SubSeq(shown, first + 1, Len(shown))

\* C17: get_properties emits one row per operating flag that is not read-only,
\* in collection order, then the extended properties that are not read-only,
\* in collection order, with the toggle rows followed by the radio-group rows
\* in the place of the first of them whose name contains "mask"; read-only
\* flags and properties give no row.
C17_RowOrder ==
    LET g == GetProperties(layout, operating_flags, properties) IN
    /\ RowNames(g.properties) = OrderedNames(layout, properties)
    /\ RowNames(g.schema) = RowNames(g.properties)
    /\ \A i \in 1..Len(g.properties) :
          g.properties[i].name.prefix = "" => g.properties[i].name.suffix \notin layout.read_only
    /\ (msg.type = "get" /\ msg.address = DEVICE_ADDRESS) => response = g

\* C17 witness: a get request on the device whose first mask-named property
\* is read-only: led_on, ramp_rate and on_level come first, the toggle rows
\* follow in the place of non_toggle_on_off_mask, and led_dimming has no row.
C17_Witness ==
    /\ msg.type = "get" /\ msg.address = DEVICE_ADDRESS /\ result = "success"
    /\ layout = ReadOnlyFirstMaskLayout
    /\ SubSeq(RowNames(response.properties), 1, 4) =
          <<[prefix |-> "", suffix |-> LED_ON], [prefix |-> "", suffix |-> RAMP_RATE],
            [prefix |-> "", suffix |-> ON_LEVEL],
            [prefix |-> TOGGLE_PROP, suffix |-> GroupName(1)]>>
    /\ \E i \in 1..Len(response.properties) :
          response.properties[i].name = [prefix |-> "", suffix |-> ON_MASK]
    /\ \A i \in 1..Len(response.properties) :
          response.properties[i].name # [prefix |-> "", suffix |-> LED_DIMMING]

\* The number of rows with the given name.
RowCount(rows, name) == Cardinality({i \in 1..Len(rows) : rows[i].name = name})

\* C18: one get_properties pass expands the toggle / radio-group cluster once
\* when some mask-named property is not read-only and not at all otherwise:
\* the rows hold one toggle row per button and one radio row per decoded
\* group, and every mask-named property after the first one gives one row of
\* its own and no toggle or radio-group rows.
C18_ClusterOnce ==
    LET rows   == GetProperties(layout, operating_flags, properties).properties
        groups == CalcRadioButtonGroups(properties)
        masks  == MaskPositions(layout)
        once   == IF masks = {} THEN 0 ELSE 1
        shown  == Visible(layout, layout.props)
    IN /\ \A b \in Buttons :
             RowCount(rows, [prefix |-> TOGGLE_PROP, suffix |-> GroupName(b)]) = once
       /\ \A i \in 1..Len(groups) :
             Cardinality({k \in 1..Len(rows) :
                             /\ rows[k].name.prefix = RADIO_BUTTON_GROUP_PROP
                             /\ rows[k].value.list = NamesOf(groups[i])}) = once
       /\ Cardinality({k \in 1..Len(rows) : rows[k].name.prefix = RADIO_BUTTON_GROUP_PROP})
             = once * Len(GetRadioButtonProperties(properties).properties)
       /\ \A i \in masks :
             RowCount(rows, shown[i]) = IF \A j \in masks : i <= j THEN 0 ELSE 1

\* C18 witness: a get request on the KeypadLinc with two decoded groups: one
\* toggle row per button, two radio rows, and off_mask, met after on_mask,
\* has a row of its own.
C18_Witness ==
    /\ msg.type = "get" /\ msg.address = DEVICE_ADDRESS /\ result = "success"
    /\ layout = KeypadLayout
    /\ Len(CalcRadioButtonGroups(properties)) = 2
    /\ \A b \in Buttons :
          RowCount(response.properties, [prefix |-> TOGGLE_PROP, suffix |-> GroupName(b)]) = 1
    /\ Cardinality({k \in 1..Len(response.properties) :
                       response.properties[k].name.prefix = RADIO_BUTTON_GROUP_PROP}) = 2
    /\ RowCount(response.properties, [prefix |-> "", suffix |-> OFF_MASK]) = 1
    /\ RowCount(response.properties, [prefix |-> "", suffix |-> ON_MASK]) = 0

(***************************************************************************)
(* C19, C20.  The rows and options of _get_radio_button_properties.        *)
(***************************************************************************)
\* The buttons that are in no decoded group.
Ungrouped(props) == Buttons \ ButtonsInGroups(CalcRadioButtonGroups(props))

\* C19: the options of the row of every decoded group are the names of the
\* group's own buttons and of all ungrouped buttons, sorted by button id, and
\* a button of one group is never among the options of the row of a different
\* group.
C19_OptionsOwnAndUngrouped ==
    LET groups == CalcRadioButtonGroups(properties)
        schema == GetRadioButtonProperties(properties).schema
    IN \A i \in 1..Len(groups) :
          /\ schema[i].name = [prefix |-> RADIO_BUTTON_GROUP_PROP, suffix |-> Digits[i]]
          /\ schema[i].options =
                NamesOf(SortedSeq(Range(groups[i]) \cup Ungrouped(properties)))
          /\ \A j \in (1..Len(groups)) \ {i} :
                \A b \in Range(groups[j]) :
                   GroupName(b) \notin Range(schema[i].options)

\* The rows of _get_radio_button_properties are one row per decoded group and,
\* if and only if at least 2 buttons are ungrouped, one more row, named by the
\* number of decoded groups, with empty value, not modified, whose options are
\* exactly the ungrouped buttons.
ExtraRowIffTwoUngrouped(props) ==
    LET g      == GetRadioButtonProperties(props)
        groups == CalcRadioButtonGroups(props)
        n      == Len(groups)
    IN /\ Len(g.properties) = n + (IF Cardinality(Ungrouped(props)) >= 2 THEN 1 ELSE 0)
       /\ Len(g.schema) = Len(g.properties)
       /\ \A i \in 1..n : g.properties[i].value.list = NamesOf(groups[i])
       /\ Cardinality(Ungrouped(props)) >= 2 =>
             /\ g.properties[n + 1] =
                   [name |-> [prefix |-> RADIO_BUTTON_GROUP_PROP, suffix |-> Digits[n + 1]],
                    value |-> RowList(<<>>), modified |-> FALSE]
             /\ g.schema[n + 1].name = g.properties[n + 1].name
             /\ g.schema[n + 1].options = NamesOf(SortedSeq(Ungrouped(props)))

\* A radio-group edit with 2 or more buttons addressed to the extra row.
ExtraRowEdited(props, m, res) ==
    /\ RadioEdited(m, res)
    /\ LastCharIsDigit(m.name)
    /\ Cardinality(Ungrouped(props)) >= 2
    /\ LastCharDigit(m.name) = Len(CalcRadioButtonGroups(props))
    /\ Cardinality(Listed(m)) >= 2

GetDone(m, res) == m.type = "get" /\ m.address = DEVICE_ADDRESS /\ res = "success"

NoPendingToggle(props) ==
    props[NON_TOGGLE_MASK].new_value = None /\ props[NON_TOGGLE_ON_OFF_MASK].new_value = None

\* One of the two toggle masks is dirty.
ToggleMaskDirty(props) ==
    IsDirty(props[NON_TOGGLE_MASK]) \/ IsDirty(props[NON_TOGGLE_ON_OFF_MASK])

\* C22: from a device whose toggle masks have no pending value, after a toggle
\* edit of one button the toggle row of every other button has modified =
\* false and shows the mode it showed before, also when the edit left one or
\* both of the shared masks dirty.
C22_OtherRowsNotModified ==
    [][(ToggleEdited(msg', result') /\ NoPendingToggle(properties)) =>
          \A c \in Buttons \ {EditedButton(msg')} :
              /\ ~GetToggleProperties(properties')[c].modified
              /\ GetToggleProperties(properties')[c].value
                     = GetToggleProperties(properties)[c].value]_vars

\* The first request was a toggle edit that left a shared mask dirty: the row
\* of the edited button is modified and no other row is.
C22_Witness ==
    /\ ToggleEdited(msg, result)
    /\ requests = 1
    /\ ToggleMaskDirty(properties)
    /\ GetToggleProperties(properties)[EditedButton(msg)].modified
    /\ \A c \in Buttons \ {EditedButton(msg)} : ~GetToggleProperties(properties)[c].modified
    /\ \E c \in Buttons \ {EditedButton(msg)} : GetToggleProperties(properties)[c].value # 0

(***************************************************************************)
(* C23: the order of the buttons of a group and of the groups.             *)
(***************************************************************************)
\* A sequence of numbers is strictly ascending.
Ascending(seq) == \A j, k \in 1..Len(seq) : j < k => seq[j] < seq[k]

\* The buttons the bits of a mask name, the given button's own bit left out.
OthersInMask(mask, button) ==
    {b \in 1..MaskBits : b # button /\ BitIsSet(mask, b - 1)}

\* The first element of a group is its anchor: the other members are the
\* buttons the effective on-mask of the first element names.
AnchorFirst(props, group) ==
    Range(group) \ {group[1]} = OthersInMask(Effective(props, OnMaskName(group[1])), group[1])

\* The anchors of the decoded groups, in the order of the groups.
Anchors(rb_groups) == [i \in 1..Len(rb_groups) |-> rb_groups[i][1]]

\* C23: every decoded group lists its buttons in ascending order with its
\* anchor as first element, and the groups come in the order of their anchors
\* in the button collection.
C23_GroupsAscendingAnchorFirst ==
    LET rb_groups == CalcRadioButtonGroups(properties) IN
    /\ \A i \in 1..Len(rb_groups) :
          Ascending(rb_groups[i]) /\ AnchorFirst(properties, rb_groups[i])
    /\ Ascending(Anchors(rb_groups))

(***************************************************************************)
(* C24: a group has at least two members, none of them repeated.           *)
(***************************************************************************)
\* The button starts no group: the decoded groups have no group it anchors.
StartsNoGroup(props, button) ==
    \A i \in 1..Len(CalcRadioButtonGroups(props)) : CalcRadioButtonGroups(props)[i][1] # button

\* Only the button's own bit is set in the mask.
OwnBitOnly(mask, button) == mask = 2 ^ (button - 1)

\* C24: whatever the effective on-masks, every decoded group has at least 2
\* members and no member twice, and a button whose effective on-mask is zero
\* or has only the button's own bit set starts no group.
C24_GroupsOfTwoOrMore ==
    LET rb_groups == CalcRadioButtonGroups(properties) IN
    /\ \A i \in 1..Len(rb_groups) :
          /\ Len(rb_groups[i]) >= 2
          /\ Cardinality(Range(rb_groups[i])) = Len(rb_groups[i])
    /\ \A b \in Buttons :
          (\/ Effective(properties, OnMaskName(b)) = 0
           \/ OwnBitOnly(Effective(properties, OnMaskName(b)), b)) => StartsNoGroup(properties, b)

\* A device on which button 1 has a zero on-mask, button 2 a pending on-mask
\* of its own bit only over a committed mask that names others, and button 3
\* anchors a group: one group is decoded, and buttons 1 and 2 start none.
C24_Witness ==
    /\ Effective(properties, ON_MASK) = 0
    /\ properties[OnMaskName(2)].value # 2
    /\ properties[OnMaskName(2)].new_value = 2
    /\ Len(CalcRadioButtonGroups(properties)) = 1
    /\ CalcRadioButtonGroups(properties)[1][1] = 3
    /\ GetDone(msg, result)

(***************************************************************************)
(* C25: a change request is applied in one piece.                          *)
(***************************************************************************)
\* The step is a change request handled for the device.
ChangeStep ==
    /\ msg'.type = "change" /\ msg'.address = DEVICE_ADDRESS
    /\ requests' = requests + 1
    /\ pc' = pc

\* The step is a reset request handled for the device.
ResetStep == msg'.type = "reset" /\ requests' = 0 /\ pc' = pc

\* The effective values of every on-mask and off-mask are the same in the
\* two collections.
SameEffective(props1, props2) ==
    \A p \in PropertyNames : Effective(props1, p) = Effective(props2, p)

BitDiffers(prop, button) ==
    BitIsSet(prop.value, button - 1) # BitIsSet(GetUsableValue(prop).value, button - 1)

\* C26: the modified flag of the toggle row of a button is true exactly when
\* the mode decoded from the committed values of the two masks differs from
\* the mode decoded from their effective values, which is the value of the row.
C26_ModifiedIffModeDiffers ==
    \A b \in Buttons :
        GetToggleProperties(properties)[b].modified
            <=> CommittedMode(properties, b) # GetToggleProperties(properties)[b].value

\* Both masks are dirty; one button's row is modified, its mode being another
\* than the committed one, and another button's row is not modified although
\* its bit of the on/off mask differs, its mode being toggle on/off in both.
C26_Witness ==
    /\ IsDirty(properties[NON_TOGGLE_MASK])
    /\ IsDirty(properties[NON_TOGGLE_ON_OFF_MASK])
    /\ \E b \in Buttons :
          /\ GetToggleProperties(properties)[b].modified
          /\ CommittedMode(properties, b) # GetToggleProperties(properties)[b].value
    /\ \E b \in Buttons :
          /\ ~GetToggleProperties(properties)[b].modified
          /\ BitDiffers(properties[NON_TOGGLE_ON_OFF_MASK], b)
          /\ CommittedMode(properties, b) = 0
          /\ GetToggleProperties(properties)[b].value = 0

(***************************************************************************)
(* C27: symmetry of the on-masks under radio-group edits.                  *)
(***************************************************************************)
\* Button a's effective on-mask has b's bit iff b's has a's bit.
Symmetric(props) ==
    \A a, b \in Buttons :
        a # b => (BitIsSet(Effective(props, OnMaskName(a)), b - 1)
                    <=> BitIsSet(Effective(props, OnMaskName(b)), a - 1))

\* The group read from the on-mask of a button: the button and the buttons
\* its effective on-mask names.
GroupFromMask(props, button) ==
    {button} \cup OthersInMask(Effective(props, OnMaskName(button)), button)

\* C27: from a device with symmetric on-masks, after any sequence of
\* radio-group edits and resets the effective on-masks are symmetric, and the
\* group read from the mask of any member of a decoded group is that group.
C27_MasksStaySymmetric ==
    /\ Symmetric(properties)
    /\ \A g \in GroupSets(properties) : \A b \in g \cap Buttons : GroupFromMask(properties, b) = g

(***************************************************************************)
(* C28: the members of the decoded groups are buttons of the device.       *)
(***************************************************************************)
\* C28: whatever the effective on-masks, every button id of every decoded
\* group is a key of device.groups, so a get request finds the display name
\* of every group member and is answered with the rows.
C28_GroupMembersAreButtons ==
    /\ ButtonsInGroups(CalcRadioButtonGroups(properties)) \subseteq Buttons
    /\ (msg.type = "get" /\ msg.address = DEVICE_ADDRESS) => result = "success"

(***************************************************************************)
(* C29: rows and schema correspond one to one.                             *)
(* The schema of the model is the sequence of the assignments              *)
(* schema[key] = entry of get_properties; key and entry["name"] are one    *)
(* name in each assignment, the name field of the entry.  The dict the     *)
(* handler returns has the keys assigned, each with the entry assigned     *)
(* last.                                                                   *)
(***************************************************************************)
\* The keys of the schema dict.
SchemaKeys(schema) == Range(RowNames(schema))

\* schema[key]: the entry assigned last under the key.
SchemaEntry(schema, key) ==
    schema[CHOOSE i \in 1..Len(schema) :
              /\ schema[i].name = key
              /\ \A j \in 1..Len(schema) : schema[j].name = key => j <= i]

\* The kind of schema entry that goes with a row of the given name.
EntryTypes(name) ==
    IF name.prefix = RADIO_BUTTON_GROUP_PROP THEN {"multi_select"}
    ELSE IF name.prefix = TOGGLE_PROP \/ name.suffix = RAMP_RATE THEN {"select"}
    ELSE IF name.suffix \in FlagNames THEN {"boolean"}
    ELSE {"integer"}

\* C29: in the rows and the schema of get_properties every row's name is a
\* key of the schema, every key of the schema is the name of exactly one row,
\* and the entry stored under a key carries that name and is the entry of
\* the kind of that row.
C29_RowsAndSchemaOneToOne ==
    LET r == GetProperties(layout, operating_flags, properties) IN
    /\ \A i \in 1..Len(r.properties) : r.properties[i].name \in SchemaKeys(r.schema)
    /\ \A key \in SchemaKeys(r.schema) :
          /\ RowCount(r.properties, key) = 1
          /\ SchemaEntry(r.schema, key).name = key
          /\ SchemaEntry(r.schema, key).type \in EntryTypes(key)
    /\ Cardinality(SchemaKeys(r.schema)) = Len(r.properties)

\* A get request of the KeypadLinc after an edit was answered with rows of
\* every kind, a modified radio row among them, and a schema of as many keys.
C29_Witness ==
    /\ GetDone(msg, result)
    /\ layout = KeypadLayout
    /\ response = GetProperties(layout, operating_flags, properties)
    /\ \E i \in 1..Len(response.properties) :
          /\ response.properties[i].name.prefix = RADIO_BUTTON_GROUP_PROP
          /\ response.properties[i].modified
    /\ {SchemaEntry(response.schema, k).type : k \in SchemaKeys(response.schema)}
          = {"boolean", "integer", "select", "multi_select"}
    /\ Cardinality(SchemaKeys(response.schema)) = Len(response.properties)

====
